---- MODULE Spec2Model ----
(***************************************************************************)
(* Model of the pack solver (internal/usecase/solver.go), its input        *)
(* validation (internal/domain/entities.go) and the Redis-backed memo      *)
(* wrapper (internal/infra/redis/cache.go).                                *)
(*                                                                         *)
(* Scale.  The three numeric limits of the program are kept as named       *)
(* constants but at a reduced scale, so that the DP table can be           *)
(* enumerated exhaustively:                                                *)
(*     maxSize    1,000,000      -> 4                                      *)
(*     maxDPSize  10,000,000     -> 9                                      *)
(*     maxAmount  1,000,000,000  -> 12                                     *)
(* The order maxSize < maxDPSize < maxAmount of the source is preserved,   *)
(* so every regime of the code occurs: an unclamped table, a table         *)
(* clamped to maxDPSize that still contains the target, and a valid        *)
(* target beyond the table.  The period of the context poll inside the     *)
(* DP loop is scaled likewise (10,000 -> 4), so that a table holds poll     *)
(* points and stretches between them.                                      *)
(*                                                                         *)
(* The limits in force are read from the variable limits, which a          *)
(* behaviour fixes in its initial state and never changes: Scaled for the  *)
(* exhaustive exploration, Source (the numbers of the source) for the      *)
(* documented reference scenarios, which are small enough to be run at     *)
(* full scale.                                                             *)
(***************************************************************************)
EXTENDS Integers, Sequences, FiniteSets, Bags, TLC

VARIABLES
    limits        \* the numeric limits of the program, fixed by Init

\* ------------------------------------------------------------------------
\* Program constants (scaled, see above)
\* ------------------------------------------------------------------------
Scaled == [maxSize |-> 4, maxAmount |-> 12, maxDPSize |-> 9,
           ctxCheckInterval |-> 4]

Source == [maxSize |-> 1000000, maxAmount |-> 1000000000, maxDPSize |-> 10000000,
           ctxCheckInterval |-> 10000]

maxSize == limits.maxSize
maxAmount == limits.maxAmount
maxDPSize == limits.maxDPSize
ctxCheckInterval == limits.ctxCheckInterval

\* ------------------------------------------------------------------------
\* Bounds of the model
\* ------------------------------------------------------------------------
MaxLen == 3          \* longest raw size list handed to DPSolver.Solve
NumCallers == 2      \* CachedSolver.Solve calls that may be running at once
MaxCalls == 2        \* CachedSolver.Solve calls started in one behaviour

\* ------------------------------------------------------------------------
\* Generic helpers
\* ------------------------------------------------------------------------
SeqRange(s) == {s[i] : i \in 1..Len(s)}

SetMin(S) == CHOOSE x \in S : \A y \in S : x <= y

\* sort.Ints applied to the elements of a finite set of integers
RECURSIVE SortSet(_)
SortSet(S) ==
    IF S = {} THEN << >>
    ELSE LET m == SetMin(S) IN <<m>> \o SortSet(S \ {m})

\* the copy is hashed in the order given
SortIntsIdentity(s) == s

\* sort.Ints applied to a slice (duplicates are kept)
RECURSIVE SortInts(_)
SortInts(s) ==
    IF Len(s) = 0 THEN << >>
    ELSE LET m == SetMin(SeqRange(s))
             i == CHOOSE j \in 1..Len(s) : s[j] = m
             rest == [k \in 1..(Len(s) - 1) |-> IF k < i THEN s[k] ELSE s[k + 1]]
         IN <<m>> \o SortInts(rest)

\* a Go map[int]int is a function whose domain is the set of its keys
EmptyMap == << >>

\* the count is set to 1 instead of being incremented
MapSetOne(m, k) ==
    IF k \in DOMAIN m THEN [m EXCEPT ![k] = 1] ELSE m @@ (k :> 1)

MapInc(m, k) ==
    IF k \in DOMAIN m THEN [m EXCEPT ![k] = @ + 1] ELSE m @@ (k :> 1)

RECURSIVE SumOver(_, _, _)
SumOver(m, K, weighted) ==
    IF K = {} THEN 0
    ELSE LET k == CHOOSE x \in K : TRUE
         IN (IF weighted THEN k * m[k] ELSE m[k]) + SumOver(m, K \ {k}, weighted)

\* ------------------------------------------------------------------------
\* internal/domain: errors, validation, Solution
\* ------------------------------------------------------------------------
NoErr == [kind |-> "nil"]

\* the sentinel is returned as it is, without a message
ErrInvalidInputBare(msg, args) ==
    [kind |-> "ErrInvalidInput", msg |-> "", args |-> << >>]

\* fmt.Errorf("%w: <msg>", ErrInvalidInput, args...): the sentinel wrapped
\* with the text of the message and the values printed into it
ErrInvalidInput(msg, args) ==
    [kind |-> "ErrInvalidInput", msg |-> msg, args |-> args]

ErrNoSolution == [kind |-> "ErrNoSolution"]

CtxErr == [kind |-> "ctx"]

\* values <= 0 are passed over instead of being reported
RECURSIVE ValidateFromSkipsNonPositive(_, _, _)
ValidateFromSkipsNonPositive(sizes, i, seen) ==
    IF i > Len(sizes) THEN NoErr
    ELSE LET size == sizes[i] IN
         IF size <= 0 THEN ValidateFromSkipsNonPositive(sizes, i + 1, seen)
         ELSE IF size > maxSize THEN ErrInvalidInput("size must not exceed %d, got %d", <<maxSize, size>>)
         ELSE IF size \in seen THEN ErrInvalidInput("duplicate size %d", <<size>>)
         ELSE ValidateFromSkipsNonPositive(sizes, i + 1, seen \cup {size})

\* a repeated value is not reported
RECURSIVE ValidateFromAllowsDuplicates(_, _, _)
ValidateFromAllowsDuplicates(sizes, i, seen) ==
    IF i > Len(sizes) THEN NoErr
    ELSE LET size == sizes[i] IN
         IF size <= 0 THEN ErrInvalidInput("size must be greater than 0, got %d", <<size>>)
         ELSE IF size > maxSize THEN ErrInvalidInput("size must not exceed %d, got %d", <<maxSize, size>>)
         ELSE ValidateFromAllowsDuplicates(sizes, i + 1, seen \cup {size})

\* the loop of ValidatePackSizes from position i on, seen = values before i
RECURSIVE ValidateFrom(_, _, _)
ValidateFrom(sizes, i, seen) ==
    IF i > Len(sizes) THEN NoErr
    ELSE LET size == sizes[i] IN
         IF size <= 0 THEN ErrInvalidInput("size must be greater than 0, got %d", <<size>>)
         ELSE IF size > maxSize THEN ErrInvalidInput("size must not exceed %d, got %d", <<maxSize, size>>)
         ELSE IF size \in seen THEN ErrInvalidInput("duplicate size %d", <<size>>)
         ELSE ValidateFrom(sizes, i + 1, seen \cup {size})

ValidatePackSizes(sizes) ==
    IF Len(sizes) = 0 THEN ErrInvalidInput("sizes cannot be empty", << >>)
    ELSE ValidateFrom(sizes, 1, {})

ValidateAmountNoMax(amount) ==
    IF amount <= 0 THEN ErrInvalidInput("amount must be greater than 0, got %d", <<amount>>)
    ELSE NoErr

ValidateAmount(amount) ==
    IF amount <= 0 THEN ErrInvalidInput("amount must be greater than 0, got %d", <<amount>>)
    ELSE IF amount > maxAmount THEN ErrInvalidInput("amount must not exceed %d, got %d", <<maxAmount, amount>>)
    ELSE NoErr

ValidateSolverInput(sizes, amount) ==
    IF ValidatePackSizes(sizes).kind # "nil" THEN ValidatePackSizes(sizes)
    ELSE IF ValidateAmount(amount).kind # "nil" THEN ValidateAmount(amount)
    ELSE NoErr

TotalItems(breakdown) == SumOver(breakdown, DOMAIN breakdown, TRUE)

\* the packs are counted as the number of sizes in use
TotalPacksDistinct(breakdown) == Cardinality(DOMAIN breakdown)

TotalPacks(breakdown) == SumOver(breakdown, DOMAIN breakdown, FALSE)

NewSolution(breakdown, amount) ==
    LET totalPacks == TotalPacks(breakdown)
        totalItems == TotalItems(breakdown)
    IN [Breakdown |-> breakdown,
        Packs     |-> totalPacks,
        Overage   |-> IF totalItems > amount THEN totalItems - amount ELSE 0,
        Amount    |-> amount]

\* ------------------------------------------------------------------------
\* internal/usecase: DPSolver
\* ------------------------------------------------------------------------
\* the loop bound off by one: the last raw size is never inserted
NormalizeSkipLast(sizes) ==
    IF Len(sizes) = 0 THEN << >>
    ELSE SortSet({sizes[i] : i \in {j \in 1..(Len(sizes) - 1) : sizes[j] > 0}})

normalizeSizes(sizes) ==
    IF Len(sizes) = 0 THEN << >>
    ELSE SortSet({sizes[i] : i \in {j \in 1..Len(sizes) : sizes[j] > 0}})

\* the table ends at the amount: no room for an overage
calculateMaxSumNoOverage(amount, sizes) ==
    IF amount > maxDPSize THEN maxDPSize ELSE amount

\* the bound is not clamped to maxDPSize
calculateMaxSumUnclamped(amount, sizes) ==
    IF Len(sizes) = 0 THEN amount
    ELSE amount + (sizes[1] - 1)

calculateMaxSum(amount, sizes) ==
    IF Len(sizes) = 0 THEN amount
    ELSE LET minSize == sizes[1]
             maxOverage == minSize - 1
             maxSum == amount + maxOverage
         IN IF maxSum > maxDPSize THEN maxDPSize ELSE maxSum

\* the cells keep the zero value of make: the marking loop is missing
InitTableUnmarked(maxSum) ==
    [i \in 0..maxSum |-> IF i = 0 THEN [packs |-> 0, parent |-> -1]
                                  ELSE [packs |-> 0, parent |-> 0]]

\* dp := make([]dpState, maxSum+1), every cell unreachable except dp[0]
InitTable(maxSum) ==
    [i \in 0..maxSum |-> IF i = 0 THEN [packs |-> 0, parent |-> -1]
                                  ELSE [packs |-> -1, parent |-> -1]]

InitScan(maxSum) == [dp |-> InitTable(maxSum), bestSum |-> -1, bestPacks |-> -1]

\* line 98: the recorded state of newSum is replaced
ImprovesStateFirstOnly(cell, newPacks) == cell.packs = -1

\* an equal pack count replaces the recorded state too
ImprovesStateOrEqual(cell, newPacks) == cell.packs = -1 \/ newPacks <= cell.packs

ImprovesState(cell, newPacks) == cell.packs = -1 \/ newPacks < cell.packs

\* line 104: the transition reaches or exceeds the amount
IsTerminalOffByOne(newSum, amount) == newSum >= amount - 1

IsTerminal(newSum, amount) == newSum >= amount

\* lines 110-119: the candidate replaces the running best terminal
BetterTerminal(st, newSum, newPacks, amount) ==
    \/ st.bestSum = -1
    \/ LET overage == newSum - amount
           currentOverage == st.bestSum - amount
       IN overage < currentOverage
          \/ (overage = currentOverage /\ newPacks < st.bestPacks)

\* body of the inner loop (lines 89-128) for the 0-based index idx
TryPack(st, sum, idx, sizes, amount, maxSum) ==
    LET size == sizes[idx + 1]
        newSum == sum + size
    IN IF newSum > maxSum THEN st
       ELSE LET newPacks == st.dp[sum].packs + 1
                dp1 == IF ImprovesState(st.dp[newSum], newPacks)
                       THEN [st.dp EXCEPT ![newSum] =
                                [packs |-> newPacks, parent |-> idx]]
                       ELSE st.dp
            IN IF IsTerminal(newSum, amount)
                  /\ BetterTerminal(st, newSum, newPacks, amount)
               THEN [dp |-> dp1, bestSum |-> newSum, bestPacks |-> newPacks]
               ELSE [st EXCEPT !.dp = dp1]

\* inner loop from index idx to the last size
RECURSIVE ScanSizes(_, _, _, _, _, _)
ScanSizes(st, sum, idx, sizes, amount, maxSum) ==
    IF idx >= Len(sizes) THEN st
    ELSE ScanSizes(TryPack(st, sum, idx, sizes, amount, maxSum),
                   sum, idx + 1, sizes, amount, maxSum)

\* one iteration of the outer loop (lines 83-128)
VisitSum(st, sum, sizes, amount, maxSum) ==
    IF st.dp[sum].packs = -1 THEN st
    ELSE ScanSizes(st, sum, 0, sizes, amount, maxSum)

\* outer loop over the sums from..to of a table of maxSum + 1 cells, in
\* ascending order.  The range is halved and the state after the lower half
\* is bound as a value before the upper half starts, so that the evaluation
\* nests to a depth logarithmic in the length of the table.
RECURSIVE ScanRange(_, _, _, _, _, _)
ScanRange(st, from, to, sizes, amount, maxSum) ==
    IF from > to THEN st
    ELSE IF from = to THEN VisitSum(st, from, sizes, amount, maxSum)
    ELSE LET mid == (from + to) \div 2
         IN CHOOSE upper \in
                {ScanRange(lower, mid + 1, to, sizes, amount, maxSum) :
                    lower \in {ScanRange(st, from, mid, sizes, amount, maxSum)}} :
                TRUE

\* outer loop from sum to maxSum
ScanSums(st, sum, sizes, amount, maxSum) ==
    ScanRange(st, sum, maxSum, sizes, amount, maxSum)

\* the context of a call becomes done just before the outer loop reaches
\* the sum cancelAt, or is done on entry, or never becomes done
CancelledOnEntry == -1

NeverCancelled == -2

CtxDoneBy(cancelAt, sum) == cancelAt # NeverCancelled /\ cancelAt <= sum

\* the loop never looks at the context
PollsCtxNever(sum) == FALSE

\* the period of the check is twice the constant
PollsCtxDoublePeriod(sum) == sum % (2 * ctxCheckInterval) = 0

\* line 75: the iterations that look at the context
PollsCtx(sum) == sum % ctxCheckInterval = 0

\* lines 75-81: the sums at which the loop finds the context done
CtxStops(cancelAt, maxSum) ==
    {sum \in 0..maxSum : PollsCtx(sum) /\ CtxDoneBy(cancelAt, sum)}

RECURSIVE ReconstructFrom(_, _, _, _)
ReconstructFrom(dp, sizes, currentSum, breakdown) ==
    IF currentSum <= 0 THEN breakdown
    ELSE IF dp[currentSum].parent = -1 THEN breakdown
    ELSE LET size == sizes[dp[currentSum].parent + 1]
         IN ReconstructFrom(dp, sizes, currentSum - size, MapInc(breakdown, size))

reconstructSolution(dp, sizes, targetSum) ==
    ReconstructFrom(dp, sizes, targetSum, EmptyMap)

\* the loop finds no size equal to the amount
ExactMatchNever(sizes, amount) == FALSE

\* lines 49-54: some normalized size equals the amount
ExactMatch(sizes, amount) == \E i \in 1..Len(sizes) : sizes[i] = amount

\* results of Solve: (solution, err) plus whether the DP table was allocated
NoSolutionValue == [Breakdown |-> EmptyMap, Packs |-> -1, Overage |-> -1, Amount |-> -1]

Failure(err, built) == [err |-> err, solution |-> NoSolutionValue, dpBuilt |-> built]

Success(sol, built) == [err |-> NoErr, solution |-> sol, dpBuilt |-> built]

DPSolve(at, sizes, amount) ==
    LET normalizedSizes == normalizeSizes(sizes) IN
    IF Len(normalizedSizes) = 0
    THEN Failure(ErrInvalidInput("no valid sizes after normalization", << >>), FALSE)
    ELSE IF ExactMatch(normalizedSizes, amount)
    THEN Success(NewSolution(amount :> 1, amount), FALSE)
    ELSE LET maxSum == calculateMaxSum(amount, normalizedSizes)
             st == ScanSums(InitScan(maxSum), 0, normalizedSizes, amount, maxSum)
         IN IF CtxStops(at, maxSum) # {} THEN Failure(CtxErr, TRUE)
            ELSE IF st.bestSum = -1 THEN Failure(ErrNoSolution, TRUE)
            ELSE Success(NewSolution(
                     reconstructSolution(st.dp, normalizedSizes, st.bestSum),
                     amount), TRUE)

\* DPSolver.Solve for a context that becomes done at the point at
SolveAt(at, sizes, amount) ==
    IF at = CancelledOnEntry THEN Failure(CtxErr, FALSE)
    ELSE IF ValidateSolverInput(sizes, amount).kind # "nil"
    THEN Failure(ValidateSolverInput(sizes, amount), FALSE)
    ELSE DPSolve(at, sizes, amount)

\* DPSolver.Solve for a context that is done (ctxDone) on entry or never
Solve(ctxDone, sizes, amount) ==
    SolveAt(IF ctxDone THEN CancelledOnEntry ELSE NeverCancelled, sizes, amount)

\* ------------------------------------------------------------------------
\* internal/infra/redis: CachedSolver
\* ------------------------------------------------------------------------
CacheKeyPrefix == "solver:"

\* the key hashes the list as given: no copy is sorted
CacheKeyUnsorted(sizes, amount) ==
    [prefix |-> CacheKeyPrefix, hash |-> sizes, amount |-> amount]

\* sha256 over fmt.Sprintf("%v", sortedSizes) is taken to be collision free:
\* the digest is represented by the sorted list it is computed from
generateCacheKey(sizes, amount) ==
    [prefix |-> CacheKeyPrefix, hash |-> SortInts(sizes), amount |-> amount]

\* json.Marshal of a Solution: the map becomes an object whose members are
\* written in key order, i.e. a list of (key, count) pairs
Marshal(solution) ==
    LET keys == SortSet(DOMAIN solution.Breakdown)
    IN [Breakdown |-> [i \in 1..Len(keys) |->
                          <<keys[i], solution.Breakdown[keys[i]]>>],
        Packs     |-> solution.Packs,
        Overage   |-> solution.Overage,
        Amount    |-> solution.Amount]

\* the object members are read back without their counts
UnmarshalCountsLost(data) ==
    [Breakdown |-> [k \in {data.Breakdown[i][1] : i \in 1..Len(data.Breakdown)}
                       |-> 1],
     Packs     |-> data.Packs,
     Overage   |-> data.Overage,
     Amount    |-> data.Amount]

\* json.Unmarshal into a Solution
Unmarshal(data) ==
    [Breakdown |-> [k \in {data.Breakdown[i][1] : i \in 1..Len(data.Breakdown)}
                       |-> LET i == CHOOSE j \in 1..Len(data.Breakdown) :
                                        data.Breakdown[j][1] = k
                           IN data.Breakdown[i][2]],
     Packs     |-> data.Packs,
     Overage   |-> data.Overage,
     Amount    |-> data.Amount]

\* outcome of client.Get: the stored bytes, redis.Nil, or a transport error
GetFound(data) == [status |-> "found", data |-> data]
GetNil == [status |-> "nil"]
GetError == [status |-> "error"]

\* the stored bytes are never handed back
getFromCacheAlwaysMiss(get) ==
    IF get.status = "error"
    THEN [err |-> [kind |-> "redis get error"], solution |-> NoSolutionValue]
    ELSE [err |-> [kind |-> "cache miss"], solution |-> NoSolutionValue]

\* getFromCache: (solution, err)
getFromCache(get) ==
    IF get.status = "found"
    THEN [err |-> NoErr, solution |-> Unmarshal(get.data)]
    ELSE IF get.status = "nil"
    THEN [err |-> [kind |-> "cache miss"], solution |-> NoSolutionValue]
    ELSE [err |-> [kind |-> "redis get error"], solution |-> NoSolutionValue]

\* a read error is handed to the caller instead of being treated as a miss
LookupPropagatesError(got) ==
    IF got.err.kind = "nil" /\ got.solution # NoSolutionValue THEN "hit"
    ELSE IF got.err.kind = "redis get error" THEN "fail"
    ELSE "miss"

\* lines 55-63 of CachedSolver.Solve: what the lookup decides
LookupOutcome(got) ==
    IF got.err.kind = "nil" /\ got.solution # NoSolutionValue THEN "hit"
    ELSE "miss"

\* the write is scheduled whatever the solver returned
SchedulesWriteAlways(res) == TRUE

\* lines 66-83: a write task is started only for a successful solve
SchedulesWrite(res) == res.err.kind = "nil"

\* the write goroutine started for the call cl: it captures the key and the
\* Solution; callerCtxDone follows the context of the call that started it
WriteTask(cl, solution) ==
    [key |-> cl.key, solution |-> solution, callerCtxDone |-> cl.ctxDone]

\* the context of the write is derived from the context of the caller
WriteCtxFromCaller(t) == t.callerCtxDone

\* line 75: the context of the write descends from context.Background(),
\* so nothing but its own 5 s deadline (see WriteFailed) ends it
WriteCtxDone(t) == FALSE

\* ------------------------------------------------------------------------
\* State
\* ------------------------------------------------------------------------
VARIABLES
    sizes,        \* raw size list of the direct call under test
    amount,       \* its target
    ctxDone,      \* whether its context is done on entry
    cancelAt,     \* when its context becomes done, see CtxDoneBy
    result,       \* what DPSolver.Solve returned for it
    keyResult,    \* what generateCacheKey returned for it
    store,        \* Redis: key -> stored bytes, for the keys present
    pending,      \* bag of detached cache-write goroutines not yet run
    inflight,     \* bag of CachedSolver.Solve calls between miss and return
    cacheHits,    \* CachedSolver.cacheHits
    cacheMisses,  \* CachedSolver.cacheMisses
    clearPc,      \* position inside ClearCache
    clearKeys,    \* keys collected by the SCAN of the running ClearCache
    calls,        \* number of CachedSolver.Solve calls started so far
    returned,     \* what the step just taken handed to a caller, if anything
    clearResult,  \* what the step just taken returned from ClearCache, if anything
    run,          \* the locals of a DPSolver.Solve call executed step by step
    http          \* the request handled by PackHandler.SolvePacks and its outcome

funcVars == <<limits, sizes, amount, ctxDone, cancelAt, result, keyResult, run, http>>

cacheVars == <<store, pending, inflight, cacheHits, cacheMisses,
               clearPc, clearKeys, calls, returned, clearResult>>

vars == <<limits, sizes, amount, ctxDone, cancelAt, result, keyResult,
          store, pending, inflight, cacheHits, cacheMisses,
          clearPc, clearKeys, calls, returned, clearResult, run, http>>

NotCalled == Failure([kind |-> "not called"], FALSE)

KeyNotCalled == [prefix |-> "", hash |-> << >>, amount |-> 0]

NoReturn == [none |-> TRUE]

NoClear == "none"

\* no call is being executed step by step
NoRun ==
    [pc |-> "idle", normalizedSizes |-> << >>, maxSum |-> 0,
     st |-> [dp |-> << >>, bestSum |-> -1, bestPacks |-> -1],
     sum |-> 0, idx |-> 0, newSum |-> 0,
     currentSum |-> 0, breakdown |-> EmptyMap, after |-> 0]

\* no request has been received
NoRequest == [pc |-> "none"]

\* inputs of the direct calls: every list of at most MaxLen values around
\* the valid range 1..maxSize, every target around 1..maxAmount
SizeValues == (-1)..(maxSize + 1)

SizeLists == UNION {[1..n -> SizeValues] : n \in 0..MaxLen}

AmountValues == (-1)..(maxAmount + 1)

\* inputs of the cached calls: a solvable input, a permutation of it, the
\* same sizes with other targets (one of them beyond the DP table), and a
\* list with a repeated size
CacheInputs ==
    {[sizes |-> <<2, 3>>, amount |-> 7],
     [sizes |-> <<3, 2>>, amount |-> 7],
     [sizes |-> <<3, 2>>, amount |-> 4],
     [sizes |-> <<2, 3>>, amount |-> maxDPSize + 1],
     [sizes |-> <<2, 2>>, amount |-> 7]}

CacheIdle ==
    /\ store = << >>
    /\ pending = EmptyBag
    /\ inflight = EmptyBag
    /\ cacheHits = 0
    /\ cacheMisses = 0
    /\ clearPc = "idle"
    /\ clearKeys = {}
    /\ calls = 0
    /\ returned = NoReturn
    /\ clearResult = NoClear

FuncIdle ==
    /\ limits = Scaled
    /\ cancelAt = NeverCancelled
    /\ sizes = << >>
    /\ amount = 0
    /\ ctxDone = FALSE
    /\ result = NotCalled
    /\ keyResult = KeyNotCalled
    /\ run = NoRun
    /\ http = NoRequest

\* ------------------------------------------------------------------------
\* Direct calls of the pure functions
\* ------------------------------------------------------------------------
FuncInit ==
    /\ limits = Scaled
    /\ sizes \in SizeLists
    /\ amount \in AmountValues
    /\ ctxDone \in BOOLEAN
    /\ cancelAt = (IF ctxDone THEN CancelledOnEntry ELSE NeverCancelled)
    /\ result = NotCalled
    /\ keyResult = KeyNotCalled
    /\ run = NoRun
    /\ http = NoRequest
    /\ CacheIdle

CallSolve ==
    /\ result = NotCalled
    /\ result' = Solve(ctxDone, sizes, amount)
    /\ UNCHANGED <<limits, sizes, amount, ctxDone, cancelAt, keyResult, run, http>>
    /\ UNCHANGED cacheVars

CallGenerateCacheKey ==
    /\ keyResult = KeyNotCalled
    /\ keyResult' = generateCacheKey(sizes, amount)
    /\ UNCHANGED <<limits, sizes, amount, ctxDone, cancelAt, result, run, http>>
    /\ UNCHANGED cacheVars

FuncNext == CallSolve \/ CallGenerateCacheKey

FuncSpec == FuncInit /\ [][FuncNext]_vars

\* ------------------------------------------------------------------------
\* Direct calls of DPSolver.Solve whose context becomes done at any point:
\* on entry, before any iteration of the DP loop, or never
\* ------------------------------------------------------------------------
CancelPoints == {CancelledOnEntry, NeverCancelled} \cup (0..maxDPSize)

CancelSizeLists == UNION {[1..n -> 0..maxSize] : n \in 0..MaxLen}

CancelInit ==
    /\ limits = Scaled
    /\ sizes \in CancelSizeLists
    /\ amount \in AmountValues
    /\ cancelAt \in CancelPoints
    /\ ctxDone = (cancelAt = CancelledOnEntry)
    /\ result = NotCalled
    /\ keyResult = KeyNotCalled
    /\ run = NoRun
    /\ http = NoRequest
    /\ CacheIdle

CallSolveAt ==
    /\ result = NotCalled
    /\ result' = SolveAt(cancelAt, sizes, amount)
    /\ UNCHANGED <<limits, sizes, amount, ctxDone, cancelAt, keyResult, run, http>>
    /\ UNCHANGED cacheVars

CancelSpec == CancelInit /\ [][CallSolveAt]_vars

\* ------------------------------------------------------------------------
\* Direct calls of DPSolver.Solve at the limits of the source, for the
\* documented scenarios and their neighbours
\* ------------------------------------------------------------------------
Reversed(s) == [i \in 1..Len(s) |-> s[Len(s) + 1 - i]]

RefCases(list, targets) ==
    {[sizes |-> l, amount |-> t] : l \in {list, Reversed(list)}, t \in targets}

RefInputs ==
    RefCases(<<250, 500, 1000>>,
             {1, 2, 250, 251, 500, 501, 749, 750, 751, 1000, 1001, 1250, 1251})
      \cup RefCases(<<250, 500, 1000, 2000, 5000>>, {251, 5001, 12000, 12001, 12251})
      \cup RefCases(<<3, 5>>, 1..10)

RefInit ==
    /\ limits = Source
    /\ \E in \in RefInputs : sizes = in.sizes /\ amount = in.amount
    /\ ctxDone = FALSE
    /\ cancelAt = NeverCancelled
    /\ result = NotCalled
    /\ keyResult = KeyNotCalled
    /\ run = NoRun
    /\ http = NoRequest
    /\ CacheIdle

RefSpec == RefInit /\ [][CallSolve]_vars

\* ------------------------------------------------------------------------
\* DPSolver.Solve executed step by step: the locals of the call are the
\* fields of run, a step is the code between two places where the context
\* may become done or where the table is about to be read or written
\* ------------------------------------------------------------------------
RunSizeLists == UNION {[1..n -> 1..maxSize] : n \in 0..MaxLen}

RunInit ==
    /\ limits = Scaled
    /\ sizes \in RunSizeLists
    /\ amount \in AmountValues
    /\ ctxDone = FALSE
    /\ cancelAt = NeverCancelled
    /\ result = NotCalled
    /\ keyResult = KeyNotCalled
    /\ run = NoRun
    /\ http = NoRequest
    /\ CacheIdle

RunUnchanged ==
    /\ UNCHANGED <<limits, sizes, amount, cancelAt, keyResult, http>>
    /\ UNCHANGED cacheVars

\* the step returns res
RunReturn(res) ==
    /\ result' = res
    /\ run' = [run EXCEPT !.pc = "done"]

\* the context of the call becomes done
RunCancel ==
    /\ run.pc # "done"
    /\ ~ctxDone
    /\ ctxDone' = TRUE
    /\ UNCHANGED <<result, run>>
    /\ RunUnchanged

\* lines 30-67: entry check, validation, normalization, early exit, and the
\* allocation of the table
RunEnter ==
    /\ run.pc = "idle"
    /\ LET normalizedSizes == normalizeSizes(sizes)
           maxSum == calculateMaxSum(amount, normalizedSizes)
       IN IF ctxDone
             \/ ValidateSolverInput(sizes, amount).kind # "nil"
             \/ Len(normalizedSizes) = 0
             \/ ExactMatch(normalizedSizes, amount)
          THEN RunReturn(Solve(ctxDone, sizes, amount))
          ELSE /\ run' = [NoRun EXCEPT !.pc = "loop",
                                       !.normalizedSizes = normalizedSizes,
                                       !.maxSum = maxSum,
                                       !.st = InitScan(maxSum)]
               /\ UNCHANGED result
    /\ UNCHANGED ctxDone
    /\ RunUnchanged

\* lines 73-81: the loop condition and the periodic check of the context
RunPoll ==
    /\ run.pc = "loop"
    /\ IF run.sum > run.maxSum
       THEN run' = [run EXCEPT !.pc = "finish"] /\ UNCHANGED result
       ELSE IF PollsCtx(run.sum) /\ ctxDone
       THEN RunReturn(Failure(CtxErr, TRUE))
       ELSE run' = [run EXCEPT !.pc = "visit"] /\ UNCHANGED result
    /\ UNCHANGED ctxDone
    /\ RunUnchanged

\* lines 83-86: the state of the current sum is read
RunVisit ==
    /\ run.pc = "visit"
    /\ LET after == IF ctxDone THEN run.after + 1 ELSE run.after
       IN IF run.st.dp[run.sum].packs = -1
          THEN run' = [run EXCEPT !.pc = "loop", !.sum = @ + 1, !.after = after]
          ELSE run' = [run EXCEPT !.pc = "try", !.idx = 0, !.after = after]
    /\ UNCHANGED <<result, ctxDone>>
    /\ RunUnchanged

\* lines 89-93: the next size is taken and newSum is compared with maxSum
RunTry ==
    /\ run.pc = "try"
    /\ IF run.idx >= Len(run.normalizedSizes)
       THEN run' = [run EXCEPT !.pc = "loop", !.sum = @ + 1]
       ELSE LET newSum == run.sum + run.normalizedSizes[run.idx + 1]
            IN IF newSum > run.maxSum
               THEN run' = [run EXCEPT !.idx = @ + 1]
               ELSE run' = [run EXCEPT !.pc = "update", !.newSum = newSum]
    /\ UNCHANGED <<result, ctxDone>>
    /\ RunUnchanged

\* lines 95-127: dp[newSum] and the best terminal are updated
RunUpdate ==
    /\ run.pc = "update"
    /\ run' = [run EXCEPT !.pc = "try",
                          !.idx = @ + 1,
                          !.st = TryPack(run.st, run.sum, run.idx,
                                         run.normalizedSizes, amount, run.maxSum)]
    /\ UNCHANGED <<result, ctxDone>>
    /\ RunUnchanged

\* lines 131-137 and 196-198: no terminal, or the reconstruction starts
RunFinish ==
    /\ run.pc = "finish"
    /\ IF run.st.bestSum = -1
       THEN RunReturn(Failure(ErrNoSolution, TRUE))
       ELSE /\ run' = [run EXCEPT !.pc = "reconstruct",
                                  !.currentSum = run.st.bestSum,
                                  !.breakdown = EmptyMap]
            /\ UNCHANGED result
    /\ UNCHANGED ctxDone
    /\ RunUnchanged

\* lines 199-209 and 138-140: one iteration of reconstructSolution, or its
\* end and the return of the Solution
RunReconstruct ==
    /\ run.pc = "reconstruct"
    /\ IF run.currentSum <= 0 \/ run.st.dp[run.currentSum].parent = -1
       THEN RunReturn(Success(NewSolution(run.breakdown, amount), TRUE))
       ELSE LET size == run.normalizedSizes[run.st.dp[run.currentSum].parent + 1]
            IN /\ run' = [run EXCEPT !.breakdown = MapInc(@, size),
                                     !.currentSum = @ - size]
               /\ UNCHANGED result
    /\ UNCHANGED ctxDone
    /\ RunUnchanged

RunNext ==
    \/ RunCancel
    \/ RunEnter
    \/ RunPoll
    \/ RunVisit
    \/ RunTry
    \/ RunUpdate
    \/ RunFinish
    \/ RunReconstruct

RunSpec == RunInit /\ [][RunNext]_vars

\* ------------------------------------------------------------------------
\* internal/adapters/http: PackHandler.SolvePacks.  The solver behind the
\* handler is the DPSolver, as the server wires it.
\* ------------------------------------------------------------------------
\* JSON values of a request body
JInts(list) == [t |-> "ints", v |-> list]
JInt(n) == [t |-> "int", v |-> n]
JString == [t |-> "string"]
JFloat == [t |-> "float"]
JNull == [t |-> "null"]
JAbsent == [t |-> "absent"]

\* request bodies: text that is not JSON, nothing at all, the JSON null, or
\* a JSON object whose members sizes and amount hold the given values
BodyMalformed == [kind |-> "malformed"]
BodyEmpty == [kind |-> "empty"]
BodyNull == [kind |-> "null"]
BodyObject(s, a) == [kind |-> "object", sizes |-> s, amount |-> a]

\* json.NewDecoder(r.Body).Decode(&req) for req of type SolveRequest: a
\* member that is absent or null leaves the zero value, a member of another
\* type than []int or int is an error
Decode(body) ==
    IF body.kind \in {"malformed", "empty"} THEN [err |-> TRUE, Sizes |-> << >>, Amount |-> 0]
    ELSE IF body.kind = "null" THEN [err |-> FALSE, Sizes |-> << >>, Amount |-> 0]
    ELSE [err |-> body.sizes.t \notin {"ints", "null", "absent"}
                    \/ body.amount.t \notin {"int", "null", "absent"},
          Sizes |-> IF body.sizes.t = "ints" THEN body.sizes.v ELSE << >>,
          Amount |-> IF body.amount.t = "int" THEN body.amount.v ELSE 0]

\* domain.NewValidationError(field, value, message)
ValidationError(field, message) ==
    [kind |-> "ValidationError", field |-> field, message |-> message]

\* only the emptiness of the list is checked
validateRequestNonEmptyOnly(req) ==
    IF Len(req.Sizes) = 0 THEN ValidationError("sizes", "must not be empty")
    ELSE NoErr

validateRequest(req) ==
    IF Len(req.Sizes) = 0 THEN ValidationError("sizes", "must not be empty")
    ELSE IF ValidateSolverInput(req.Sizes, req.Amount).kind # "nil"
    THEN ValidateSolverInput(req.Sizes, req.Amount)
    ELSE NoErr

\* the status handleSolverError answers with
handleSolverError(err) ==
    IF err.kind = "ErrInvalidInput" THEN 422
    ELSE IF err.kind = "ErrNoSolution" THEN 422
    ELSE IF err.kind = "ctx" THEN 408
    ELSE 500

\* what SolvePacks does with a request: the status it answers with, whether
\* it called the solver, and whether it started the goroutine that saves
\* the calculation to the repository
Answer(status, solverCalled, saveStarted, solveResult) ==
    [status |-> status, solverCalled |-> solverCalled,
     saveStarted |-> saveStarted, solveResult |-> solveResult]

SolvePacks(req, done) ==
    IF req.method # "POST" THEN Answer(405, FALSE, FALSE, NotCalled)
    ELSE IF req.contentType # "application/json" /\ req.contentType # ""
    THEN Answer(415, FALSE, FALSE, NotCalled)
    ELSE LET decoded == Decode(req.body) IN
         IF decoded.err THEN Answer(400, FALSE, FALSE, NotCalled)
         ELSE LET verr == validateRequest(decoded) IN
              IF verr.kind \in {"ValidationError", "ErrInvalidInput"}
              THEN Answer(422, FALSE, FALSE, NotCalled)
              ELSE IF verr.kind # "nil" THEN Answer(500, FALSE, FALSE, NotCalled)
              ELSE LET res == Solve(done, decoded.Sizes, decoded.Amount) IN
                   IF res.err.kind # "nil"
                   THEN Answer(handleSolverError(res.err), TRUE, FALSE, res)
                   ELSE Answer(200, TRUE, req.hasRepository, res)

Methods == {"POST", "GET", "PUT"}

ContentTypes == {"application/json", "", "text/plain", "application/json; charset=utf-8"}

SizesMembers ==
    {JAbsent, JNull, JString, JInts(<< >>), JInts(<<2, 3>>), JInts(<<3, 2>>),
     JInts(<<2, 2>>), JInts(<<0, 3>>), JInts(<<maxSize + 1>>)}

AmountMembers ==
    {JAbsent, JNull, JString, JFloat, JInt(7), JInt(0), JInt(-1),
     JInt(maxDPSize + 1), JInt(maxAmount + 1)}

Bodies ==
    {BodyMalformed, BodyEmpty, BodyNull}
      \cup {BodyObject(s, a) : s \in SizesMembers, a \in AmountMembers}

Requests ==
    [method : Methods, contentType : ContentTypes, body : Bodies,
     hasRepository : BOOLEAN]

HandlerInit ==
    /\ limits = Scaled
    /\ cancelAt = NeverCancelled
    /\ sizes = << >>
    /\ amount = 0
    /\ ctxDone \in BOOLEAN
    /\ result = NotCalled
    /\ keyResult = KeyNotCalled
    /\ run = NoRun
    /\ \E req \in Requests :
          http = [pc |-> "received", req |-> req, status |-> 0,
                  solverCalls |-> 0, savesPending |-> 0, repositoryCalls |-> 0]
    /\ CacheIdle

HandlerUnchanged ==
    /\ UNCHANGED <<limits, sizes, amount, ctxDone, cancelAt, keyResult, run>>
    /\ UNCHANGED cacheVars

\* SolvePacks runs for the request received and writes the response
HandleSolvePacks ==
    /\ http.pc = "received"
    /\ LET answer == SolvePacks(http.req, ctxDone)
       IN /\ http' = [http EXCEPT
                         !.pc = "responded",
                         !.status = answer.status,
                         !.solverCalls = IF answer.solverCalled THEN @ + 1 ELSE @,
                         !.savesPending = IF answer.saveStarted THEN @ + 1 ELSE @]
          /\ result' = answer.solveResult
    /\ HandlerUnchanged

\* the goroutine started for the audit calls repository.SaveCalculation
\* (its error, if any, is only logged)
SaveCalculation ==
    /\ http.pc = "responded"
    /\ http.savesPending > 0
    /\ http' = [http EXCEPT !.savesPending = @ - 1, !.repositoryCalls = @ + 1]
    /\ UNCHANGED result
    /\ HandlerUnchanged

HandlerNext == HandleSolvePacks \/ SaveCalculation

HandlerSpec == HandlerInit /\ [][HandlerNext]_vars

\* ------------------------------------------------------------------------
\* CachedSolver over a shared store.  The goroutines that call Solve are
\* anonymous: a running call is its arguments and locals, and the calls
\* that have missed and not yet returned form a bag.
\* ------------------------------------------------------------------------
One(x) == SetToBag({x})

Return(cl, err, solution, hit, invoked) ==
    [sizes |-> cl.sizes, amount |-> cl.amount,
     ctxDone |-> cl.ctxDone, readErr |-> cl.readErr,
     err |-> err, solution |-> solution,
     hit |-> hit, solverInvoked |-> invoked]

MayStartCall ==
    /\ calls < MaxCalls
    /\ BagCardinality(inflight) < NumCallers

\* line 58: the hit counter after the lookup
HitsAfter(outcome) == IF outcome = "hit" THEN cacheHits + 1 ELSE cacheHits

\* the miss counter is advanced by every lookup
MissesAfterEveryLookup(outcome) == cacheMisses + 1

\* line 63: the miss counter after the lookup
MissesAfter(outcome) == IF outcome = "miss" THEN cacheMisses + 1 ELSE cacheMisses

\* lines 52-63 of CachedSolver.Solve for the outcome get of client.Get
AfterLookup(in, get) ==
    LET got == getFromCache(get)
        outcome == LookupOutcome(got)
        cl == [sizes |-> in.sizes, amount |-> in.amount, ctxDone |-> FALSE,
               key |-> generateCacheKey(in.sizes, in.amount),
               readErr |-> (get.status = "error")]
    IN /\ calls' = calls + 1
       /\ cacheHits' = HitsAfter(outcome)
       /\ cacheMisses' = MissesAfter(outcome)
       /\ inflight' = IF outcome = "miss" THEN inflight (+) One(cl) ELSE inflight
       /\ returned' = IF outcome = "hit"
                      THEN Return(cl, NoErr, got.solution, TRUE, FALSE)
                      ELSE IF outcome = "miss" THEN NoReturn
                      ELSE Return(cl, got.err, NoSolutionValue, FALSE, FALSE)
       /\ clearResult' = NoClear
       /\ UNCHANGED <<store, pending, clearPc, clearKeys>>
       /\ UNCHANGED funcVars

\* the key is present and the read succeeds
LookupFound(in) ==
    /\ MayStartCall
    /\ generateCacheKey(in.sizes, in.amount) \in DOMAIN store
    /\ AfterLookup(in, GetFound(store[generateCacheKey(in.sizes, in.amount)]))

\* the key is absent: redis.Nil
LookupNil(in) ==
    /\ MayStartCall
    /\ generateCacheKey(in.sizes, in.amount) \notin DOMAIN store
    /\ AfterLookup(in, GetNil)

\* the read fails (store unreachable, context done, undecodable bytes)
LookupError(in) ==
    /\ MayStartCall
    /\ AfterLookup(in, GetError)

\* the context of the running call cl is cancelled, or its deadline passes
Cancel(cl) ==
    /\ BagIn(cl, inflight)
    /\ ~cl.ctxDone
    /\ inflight' = (inflight (-) One(cl)) (+) One([cl EXCEPT !.ctxDone = TRUE])
    /\ returned' = NoReturn
    /\ clearResult' = NoClear
    /\ UNCHANGED <<store, pending, cacheHits, cacheMisses,
                   clearPc, clearKeys, calls>>
    /\ UNCHANGED funcVars

\* lines 66-85 of CachedSolver.Solve for the running call cl
AfterSolve(cl, res) ==
    /\ pending' = IF SchedulesWrite(res)
                  THEN pending (+) One(WriteTask(cl, res.solution))
                  ELSE pending
    /\ returned' = Return(cl, res.err, res.solution, FALSE, TRUE)
    /\ clearResult' = NoClear
    /\ inflight' = inflight (-) One(cl)
    /\ UNCHANGED <<store, cacheHits, cacheMisses, clearPc, clearKeys, calls>>
    /\ UNCHANGED funcVars

SolveOk(cl) ==
    /\ BagIn(cl, inflight)
    /\ Solve(cl.ctxDone, cl.sizes, cl.amount).err.kind = "nil"
    /\ AfterSolve(cl, Solve(cl.ctxDone, cl.sizes, cl.amount))

SolveFail(cl) ==
    /\ BagIn(cl, inflight)
    /\ Solve(cl.ctxDone, cl.sizes, cl.amount).err.kind # "nil"
    /\ AfterSolve(cl, Solve(cl.ctxDone, cl.sizes, cl.amount))

\* saveToCache of a detached goroutine succeeds
WriteDone(t) ==
    /\ BagIn(t, pending)
    /\ ~WriteCtxDone(t)
    /\ store' = (t.key :> Marshal(t.solution)) @@ store
    /\ pending' = pending (-) One(t)
    /\ returned' = NoReturn
    /\ clearResult' = NoClear
    /\ UNCHANGED <<inflight, cacheHits, cacheMisses, clearPc, clearKeys, calls>>
    /\ UNCHANGED funcVars

\* saveToCache fails or its 5 s context expires: the error is dropped
WriteFailed(t) ==
    /\ BagIn(t, pending)
    /\ pending' = pending (-) One(t)
    /\ returned' = NoReturn
    /\ clearResult' = NoClear
    /\ UNCHANGED <<store, inflight, cacheHits, cacheMisses,
                   clearPc, clearKeys, calls>>
    /\ UNCHANGED funcVars

\* the context of a call that has returned is cancelled while the write it
\* started has not run yet
CancelAfterReturn(t) ==
    /\ BagIn(t, pending)
    /\ ~t.callerCtxDone
    /\ pending' = (pending (-) One(t)) (+) One([t EXCEPT !.callerCtxDone = TRUE])
    /\ returned' = NoReturn
    /\ clearResult' = NoClear
    /\ UNCHANGED <<store, inflight, cacheHits, cacheMisses,
                   clearPc, clearKeys, calls>>
    /\ UNCHANGED funcVars

\* the store drops an entry whose TTL has passed
Expire(k) ==
    /\ k \in DOMAIN store
    /\ store' = [x \in DOMAIN store \ {k} |-> store[x]]
    /\ returned' = NoReturn
    /\ clearResult' = NoClear
    /\ UNCHANGED <<pending, inflight, cacheHits, cacheMisses,
                   clearPc, clearKeys, calls>>
    /\ UNCHANGED funcVars

\* the iterator is read once: only one key is collected
ScanOneKey ==
    IF DOMAIN store = {} THEN {} ELSE {CHOOSE k \in DOMAIN store : TRUE}

\* lines 152-157: the keys that match CacheKeyPrefix + "*"
ScanKeys == {k \in DOMAIN store : k.prefix = CacheKeyPrefix}

\* ClearCache: the SCAN collects the keys with the prefix
ClearScan ==
    /\ clearPc = "idle"
    /\ clearPc' = "scanned"
    /\ clearKeys' = ScanKeys
    /\ returned' = NoReturn
    /\ clearResult' = NoClear
    /\ UNCHANGED <<store, pending, inflight, cacheHits, cacheMisses, calls>>
    /\ UNCHANGED funcVars

\* ClearCache: the DEL of the collected keys, then return nil
ClearDel ==
    /\ clearPc = "scanned"
    /\ store' = [x \in DOMAIN store \ clearKeys |-> store[x]]
    /\ clearPc' = "idle"
    /\ clearKeys' = {}
    /\ returned' = NoReturn
    /\ clearResult' = "nil"
    /\ UNCHANGED <<pending, inflight, cacheHits, cacheMisses, calls>>
    /\ UNCHANGED funcVars

\* ClearCache: the SCAN or the DEL fails, the error is returned
ClearError ==
    /\ clearPc = "scanned"
    /\ clearPc' = "idle"
    /\ clearKeys' = {}
    /\ returned' = NoReturn
    /\ clearResult' = "error"
    /\ UNCHANGED <<store, pending, inflight, cacheHits, cacheMisses, calls>>
    /\ UNCHANGED funcVars

ResetMetrics ==
    /\ cacheHits' = 0
    /\ cacheMisses' = 0
    /\ returned' = NoReturn
    /\ clearResult' = NoClear
    /\ UNCHANGED <<store, pending, inflight, clearPc, clearKeys, calls>>
    /\ UNCHANGED funcVars

CacheInit == FuncIdle /\ CacheIdle

CacheNext ==
    \/ \E in \in CacheInputs : LookupFound(in)
    \/ \E in \in CacheInputs : LookupNil(in)
    \/ \E in \in CacheInputs : LookupError(in)
    \/ \E cl \in BagToSet(inflight) : Cancel(cl)
    \/ \E cl \in BagToSet(inflight) : SolveOk(cl)
    \/ \E cl \in BagToSet(inflight) : SolveFail(cl)
    \/ \E t \in BagToSet(pending) : WriteDone(t)
    \/ \E t \in BagToSet(pending) : WriteFailed(t)
    \/ \E t \in BagToSet(pending) : CancelAfterReturn(t)
    \/ \E k \in DOMAIN store : Expire(k)
    \/ ClearScan
    \/ ClearDel
    \/ ClearError
    \/ ResetMetrics

CacheSpec == CacheInit /\ [][CacheNext]_vars

\* ------------------------------------------------------------------------
\* CachedSolver with a caller that writes to the Solution it received.
\* Lines 78 and 85 of CachedSolver.Solve hand the same *Solution to the write
\* goroutine and to the caller, so the Solution of a pending write task is
\* the object the caller holds.  The write of the caller and the read of
\* json.Marshal are not synchronized: the goroutine serializes the map as
\* it was before the write or as it is after it, or the runtime stops the
\* process on the concurrent map access, after which no step is taken.
\* ------------------------------------------------------------------------
\* the Solution the solver returned for the key of the write task t
ComputedFor(t) == Solve(FALSE, t.key.hash, t.key.amount).solution

\* the caller of the call that started t raises the count of the size k in
\* the Breakdown of its Solution
CallerModifies(t, k) ==
    /\ BagIn(t, pending)
    /\ t.solution = ComputedFor(t)
    /\ k \in DOMAIN t.solution.Breakdown
    /\ pending' = (pending (-) One(t))
                     (+) One([t EXCEPT !.solution.Breakdown[k] = @ + 1])
    /\ returned' = NoReturn
    /\ clearResult' = NoClear
    /\ UNCHANGED <<store, inflight, cacheHits, cacheMisses,
                   clearPc, clearKeys, calls>>
    /\ UNCHANGED funcVars

AliasNext ==
    \/ CacheNext
    \/ \E t \in BagToSet(pending) :
          \E k \in DOMAIN t.solution.Breakdown : CallerModifies(t, k)

AliasSpec == CacheInit /\ [][AliasNext]_vars

\* ------------------------------------------------------------------------
\* Properties of DPSolver.Solve
\* ------------------------------------------------------------------------
Solved == result.err.kind = "nil"

ValidInput == ValidateSolverInput(sizes, amount).kind = "nil"

\* every arrangement of the size list s
PermutationsOf(s) ==
    {[i \in 1..Len(s) |-> s[p[i]]] : p \in Permutations(1..Len(s))}

\* every multiset over the sizes S (size -> count) whose total is at most cap
RECURSIVE MultisetsUpTo(_, _)
MultisetsUpTo(S, cap) ==
    IF S = {} THEN {EmptyMap}
    ELSE LET z == CHOOSE x \in S : TRUE
         IN UNION {{m @@ (z :> n) : m \in MultisetsUpTo(S \ {z}, cap - n * z)}
                   : n \in 0..(cap \div z)}

LexLess(o1, p1, o2, p2) == o1 < o2 \/ (o1 = o2 /\ p1 < p2)

\* C1: whenever Solve returns a Solution for a valid input, the total
\* sum(size x count) of its breakdown is at least the target.
C1_NeverUnderDelivers ==
    Solved => TotalItems(result.solution.Breakdown) >= amount

\* a Solution built by the DP scan that over-delivers
C1_Witness ==
    /\ Solved
    /\ result.dpBuilt
    /\ TotalItems(result.solution.Breakdown) > amount

C3_AlwaysSolution ==
    (result # NotCalled /\ ~ctxDone /\ ValidInput) => Solved

\* C4: for a valid duplicate-free list, Solve returns the identical Solution
\* for every permutation of the list.
C4_OrderIndependent ==
    (result # NotCalled /\ ~ctxDone /\ ValidInput) =>
        \A p \in PermutationsOf(sizes) : Solve(FALSE, p, amount) = result

\* a DP-built Solution for a list given in non-ascending order
C4_Witness ==
    /\ Solved
    /\ result.dpBuilt
    /\ Len(sizes) = 3
    /\ sizes[1] > sizes[2]
    /\ DOMAIN result.solution.Breakdown = {sizes[1], sizes[3]}

\* the rejection rule as the claim states it
InvalidByRule ==
    \/ Len(sizes) = 0
    \/ \E i \in 1..Len(sizes) : sizes[i] <= 0
    \/ \E i \in 1..Len(sizes) : sizes[i] > maxSize
    \/ \E i, j \in 1..Len(sizes) : i # j /\ sizes[i] = sizes[j]
    \/ amount <= 0
    \/ amount > maxAmount

\* C5: for a context that is not done, Solve returns ErrInvalidInput exactly
\* when the list is empty, holds a value <= 0, a value > maxSize or a repeated
\* value, or the target is <= 0 or > maxAmount; then no DP table was built
\* and no Solution is returned.
C5_InvalidInputExactly ==
    (result # NotCalled /\ ~ctxDone) =>
        /\ (result.err.kind = "ErrInvalidInput") <=> InvalidByRule
        /\ (result.err.kind = "ErrInvalidInput") =>
               (~result.dpBuilt /\ result.solution = NoSolutionValue)

\* a rejection for a target just above maxAmount with an acceptable list
C5_Witness ==
    /\ result.err.kind = "ErrInvalidInput"
    /\ ValidatePackSizes(sizes).kind = "nil"
    /\ amount = maxAmount + 1

\* the counts of a breakdown added up, each weighted by its size or by 1
RECURSIVE Tally(_, _)
Tally(bd, bySize) ==
    IF DOMAIN bd = {} THEN 0
    ELSE LET k == SetMin(DOMAIN bd)
             rest == [x \in DOMAIN bd \ {k} |-> bd[x]]
         IN (IF bySize THEN k * bd[k] ELSE bd[k]) + Tally(rest, bySize)

\* C15: every Solution returned by Solve is well formed: each key of the
\* breakdown is one of the input sizes, each count is at least 1, Packs is
\* the sum of the counts, Overage is sum(size x count) minus the target, and
\* the Solution carries the target (so Solution.Validate accepts it).
C15_WellFormed ==
    Solved =>
        LET sol == result.solution IN
        /\ DOMAIN sol.Breakdown \subseteq SeqRange(sizes)
        /\ \A k \in DOMAIN sol.Breakdown : k > 0 /\ sol.Breakdown[k] >= 1
        /\ sol.Packs = Tally(sol.Breakdown, FALSE)
        /\ sol.Overage = Tally(sol.Breakdown, TRUE) - amount
        /\ sol.Overage >= 0
        /\ sol.Amount = amount
        /\ sol.Amount > 0

\* a Solution reconstructed from the table that uses two of three sizes,
\* one of them more than once
C15_Witness ==
    /\ Solved
    /\ result.dpBuilt
    /\ Len(sizes) = 3
    /\ Cardinality(DOMAIN result.solution.Breakdown) = 2
    /\ \E k \in DOMAIN result.solution.Breakdown : result.solution.Breakdown[k] >= 2

\* the call under test is Solve(list, target) and has returned
Called(list, target) == result # NotCalled /\ sizes = list /\ amount = target

\* the call returned exactly this breakdown with these packs and overage
Gives(breakdown, packs, overage) ==
    /\ result.err = NoErr
    /\ result.solution.Breakdown = breakdown
    /\ result.solution.Packs = packs
    /\ result.solution.Overage = overage

IsPositive(x) == x > 0

\* the raw list without its values <= 0
PositivePart(s) == SelectSeq(s, IsPositive)

HasNonPositive(s) == \E i \in 1..Len(s) : s[i] <= 0

\* C18 as stated: values <= 0 are removed before the list is judged, so a
\* list whose remaining sizes are acceptable is solved with them.
C18_NonPositiveRemoved ==
    (/\ result # NotCalled
     /\ ~ctxDone
     /\ ValidateSolverInput(PositivePart(sizes), amount).kind = "nil")
        => result = Solve(FALSE, PositivePart(sizes), amount)

\* C18 amended: a value <= 0 in the raw list makes the list invalid: Solve
\* returns the invalid-input error for it whatever the other sizes are, and
\* builds no table; the lists that are solved hold no such value.
C18_NonPositiveRejected ==
    (result # NotCalled /\ ~ctxDone) =>
        /\ HasNonPositive(sizes) =>
              /\ result.err.kind = "ErrInvalidInput"
              /\ result.solution = NoSolutionValue
              /\ ~result.dpBuilt
        /\ Solved => (~HasNonPositive(sizes) /\ PositivePart(sizes) = sizes)

\* a list rejected although its positive sizes alone would be solved
C18_Witness ==
    /\ result.err.kind = "ErrInvalidInput"
    /\ HasNonPositive(sizes)
    /\ Len(PositivePart(sizes)) = 2
    /\ Solve(FALSE, PositivePart(sizes), amount).err.kind = "nil"

\* the texts that speak of the size list, and those that speak of the target
SizeMessages ==
    {"sizes cannot be empty", "size must be greater than 0, got %d",
     "size must not exceed %d, got %d", "duplicate size %d"}

TargetMessages ==
    {"amount must be greater than 0, got %d", "amount must not exceed %d, got %d"}

FieldNamed(msg) ==
    IF msg \in SizeMessages THEN "sizes"
    ELSE IF msg \in TargetMessages THEN "target"
    ELSE "none"

\* the value at position i of the raw list breaks a rule
Offending(i) ==
    \/ sizes[i] <= 0
    \/ sizes[i] > maxSize
    \/ \E j \in 1..(i - 1) : sizes[j] = sizes[i]

SizesRejected == Len(sizes) = 0 \/ \E i \in 1..Len(sizes) : Offending(i)

FirstOffending == sizes[SetMin({i \in 1..Len(sizes) : Offending(i)})]

\* the value the message ends with
ValueShown(e) == e.args[Len(e.args)]

\* C19: every invalid-input error of Solve carries a message that names the
\* rejected input (the size list, else the target), gives the reason, and
\* shows the offending value: the first size that breaks a rule, or the
\* target; for an empty list the message says that the list is empty.
C19_ErrorIdentifiesInput ==
    result.err.kind = "ErrInvalidInput" =>
        LET e == result.err IN
        /\ e.msg # ""
        /\ IF SizesRejected
           THEN /\ FieldNamed(e.msg) = "sizes"
                /\ IF Len(sizes) = 0
                   THEN e.msg = "sizes cannot be empty"
                   ELSE Len(e.args) > 0 /\ ValueShown(e) = FirstOffending
           ELSE /\ FieldNamed(e.msg) = "target"
                /\ Len(e.args) > 0
                /\ ValueShown(e) = amount

\* a list whose second value is the first to break a rule, with a target
\* that is invalid too
C19_Witness ==
    /\ result.err.kind = "ErrInvalidInput"
    /\ Len(sizes) = 3
    /\ ~Offending(1)
    /\ Offending(2)
    /\ sizes[3] # sizes[2]
    /\ amount <= 0

\* the last sum of the DP table of the call
TableBound == calculateMaxSum(amount, normalizeSizes(sizes))

\* the context becomes done after the entry check, while the DP loop of a
\* valid call that needs the table is still running
CancelledWhileRunning ==
    /\ ValidInput
    /\ amount \notin SeqRange(sizes)
    /\ cancelAt \in 0..TableBound

\* some check of the context comes at or after the cancellation
CheckFollows ==
    \E p \in 0..TableBound : p >= cancelAt /\ p % ctxCheckInterval = 0

CtxFailure(res) == res.err = CtxErr /\ res.solution = NoSolutionValue

\* C12 as stated: a context that becomes done while Solve is running makes
\* Solve return no Solution and the context's error.
C12_CancelStops ==
    (result # NotCalled /\ CancelledWhileRunning) => CtxFailure(result)

\* C12 amended: a context that is done on entry, or that one of the periodic
\* checks of the DP loop finds done, makes Solve return no Solution and the
\* context's error; a cancellation that no check observes changes nothing:
\* Solve returns what it returns for a context that is never done.
C12_CancelObservedAtChecks ==
    result # NotCalled =>
        /\ cancelAt = CancelledOnEntry => (CtxFailure(result) /\ ~result.dpBuilt)
        /\ (CancelledWhileRunning /\ CheckFollows) => CtxFailure(result)
        /\ result.err.kind = "ctx" =>
              (CtxFailure(result) /\ cancelAt # NeverCancelled)
        /\ result.err.kind # "ctx" => result = Solve(FALSE, sizes, amount)

\* a call stopped by a check in the middle of a table that holds a Solution
C12_Witness ==
    /\ result # NotCalled
    /\ CancelledWhileRunning
    /\ cancelAt > 0
    /\ CtxFailure(result)
    /\ Solve(FALSE, sizes, amount).err.kind = "nil"

\* the Solution of one pack of the size target
OnePack(target) ==
    [Breakdown |-> target :> 1, Packs |-> 1, Overage |-> 0, Amount |-> target]

SizeEqualsTarget == \E i \in 1..Len(sizes) : sizes[i] = amount

\* C21: when some size of a valid list equals the target and the context is
\* not done on entry, Solve returns exactly the one-pack Solution
\* {target: 1} with packs 1 and overage 0, and allocates no DP table, also
\* when the context becomes done right after the entry check.
C21_EarlyExitOnePack ==
    (result # NotCalled /\ cancelAt # CancelledOnEntry
        /\ ValidInput /\ SizeEqualsTarget) =>
        /\ result.err = NoErr
        /\ result.solution = OnePack(amount)
        /\ ~result.dpBuilt

\* the target equals the largest of three sizes, so the table would also
\* have held sums of the smaller ones, and the context is done before the
\* first iteration
C21_Witness ==
    /\ result # NotCalled
    /\ ValidInput
    /\ Len(sizes) = 3
    /\ amount = sizes[1]
    /\ sizes[2] < amount
    /\ sizes[3] < sizes[2]
    /\ cancelAt = 0
    /\ result.solution = OnePack(amount)

\* the entry check or one of the periodic checks finds the context done
ObservedDone ==
    \/ cancelAt = CancelledOnEntry
    \/ (cancelAt \in 0..TableBound /\ CheckFollows)

\* W = min(target + minSize - 1, maxDPSize), from the raw list
SearchBound ==
    LET w == amount + SetMin(SeqRange(sizes)) - 1
    IN IF w > maxDPSize THEN maxDPSize ELSE w

\* no multiset of the sizes has a total in the range target..W
NothingInRange ==
    \A m \in MultisetsUpTo(SeqRange(sizes), SearchBound) : TotalItems(m) < amount

IsPermutationOf(s, t) == t \in PermutationsOf(s)

\* C6: every Solution that CachedSolver.Solve returns for (sizes, target),
\* as a hit or after a miss, is the Solution the underlying solver computes
\* for that input.
C6_ReturnsSolverSolution ==
    (returned # NoReturn /\ returned.err.kind = "nil") =>
        /\ Solve(FALSE, returned.sizes, returned.amount).err.kind = "nil"
        /\ returned.solution = Solve(FALSE, returned.sizes, returned.amount).solution

\* a hit served while a ClearCache that has collected the key of the entry
\* has not yet deleted it
C6_Witness ==
    /\ returned # NoReturn
    /\ returned.hit
    /\ clearPc = "scanned"
    /\ generateCacheKey(returned.sizes, returned.amount) \in clearKeys

\* the running calls that the step adds: the calls whose lookup missed
NewInflight ==
    {cl \in BagToSet(inflight') : CopiesIn(cl, inflight') > CopiesIn(cl, inflight)}

\* the step starts a call (it performs the lookup) for the input in
StartsCall(in) ==
    /\ calls' = calls + 1
    /\ \/ /\ returned' # NoReturn
          /\ returned'.sizes = in.sizes
          /\ returned'.amount = in.amount
       \/ \E cl \in NewInflight : cl.sizes = in.sizes /\ cl.amount = in.amount

\* the read of the step that starts a call failed
ReadFailed == \E cl \in NewInflight : cl.readErr

\* the store holds an entry written for the sizes of in (in some order)
\* and the target of in
EntryFor(in) ==
    \E k \in DOMAIN store : k.amount = in.amount /\ IsPermutationOf(k.hash, in.sizes)

ServedFromCache(in) ==
    /\ returned' # NoReturn
    /\ returned'.hit
    /\ ~returned'.solverInvoked
    /\ cacheHits' = cacheHits + 1
    /\ returned'.solution = Solve(FALSE, in.sizes, in.amount).solution

\* C7 as stated: while the entry written after a miss is in the store, the
\* next Solve with the same sizes (any order) and target is served from the
\* cache.
C7_RoundTrip ==
    [][\A in \in CacheInputs :
          (StartsCall(in) /\ EntryFor(in)) => ServedFromCache(in)]_vars

\* C7 amended: the same, provided the read of that call succeeds.
C7_RoundTripWhenReadSucceeds ==
    [][\A in \in CacheInputs :
          (StartsCall(in) /\ EntryFor(in) /\ ~ReadFailed) => ServedFromCache(in)]_vars

\* a hit for the permuted list <<3, 2>> with target 7
C7_Witness ==
    /\ returned # NoReturn
    /\ returned.hit
    /\ returned.sizes = <<3, 2>>
    /\ returned.amount = 7
    /\ cacheHits > 0

\* C8: generateCacheKey returns the same key for every permutation of the
\* size list.
C8_KeyOrderIndependent ==
    keyResult # KeyNotCalled =>
        \A p \in PermutationsOf(sizes) : generateCacheKey(p, amount) = keyResult

\* a key computed for a list of three values given in descending order
C8_Witness ==
    /\ keyResult # KeyNotCalled
    /\ Len(sizes) = 3
    /\ sizes[1] > sizes[2]
    /\ sizes[2] > sizes[3]

\* C9: a call whose solver returns an error schedules no write and leaves
\* the store unchanged.
C9_ErrorsNotCached ==
    [][(returned' # NoReturn /\ returned'.solverInvoked /\ returned'.err.kind # "nil")
          => (store' = store /\ pending' = pending)]_vars

\* a cancelled solve has returned while the store holds an entry
C9_Witness ==
    /\ returned # NoReturn
    /\ returned.err.kind = "ctx"
    /\ DOMAIN store # {}

\* C10: a failure of the store never fails the call: after a failed read the
\* caller receives what the underlying solver returns, and the failure of a
\* background write reaches no caller.
C10_StoreFailureSwallowed ==
    returned # NoReturn =>
        /\ returned.err.kind \in {"nil", "ErrInvalidInput", "ErrNoSolution", "ctx"}
        /\ returned.readErr =>
              /\ returned.solverInvoked
              /\ returned.err =
                    Solve(returned.ctxDone, returned.sizes, returned.amount).err
              /\ returned.solution =
                    Solve(returned.ctxDone, returned.sizes, returned.amount).solution

\* a Solution delivered although the read of that call failed
C10_Witness ==
    /\ returned # NoReturn
    /\ returned.readErr
    /\ returned.err.kind = "nil"

\* the step returns the Solution of a successful solve after a miss
ReturnsAfterMiss ==
    /\ returned' # NoReturn
    /\ returned'.solverInvoked
    /\ returned'.err.kind = "nil"

\* C11: on a miss with a successful solve the call returns the Solution
\* while the write it started is still pending (the store is untouched by
\* the returning step), and the context of that write is never done because
\* of the caller: a cancellation of the caller's context after the solve
\* leaves the write runnable.
C11_WriteDetached ==
    [][/\ ReturnsAfterMiss =>
             /\ store' = store
             /\ \E t \in BagToSet(pending') :
                   /\ t.key = generateCacheKey(returned'.sizes, returned'.amount)
                   /\ t.solution = returned'.solution
                   /\ CopiesIn(t, pending') = CopiesIn(t, pending) + 1
             /\ returned'.solution =
                   Solve(FALSE, returned'.sizes, returned'.amount).solution
       /\ \A t \in BagToSet(pending') : ~WriteCtxDone(t)]_vars

\* a write is still pending after the context of the call that started it
\* has been cancelled
C11_Witness ==
    \E t \in BagToSet(pending) : t.callerCtxDone

CountersUnchanged == cacheHits' = cacheHits /\ cacheMisses' = cacheMisses

PrefixedKeys(st) == {k \in DOMAIN st : k.prefix = CacheKeyPrefix}

\* C14 as stated: when ClearCache returns nil the store holds no entry
\* whose key carries the prefix.
C14_EmptyOnReturn ==
    clearResult = "nil" => PrefixedKeys(store) = {}

\* C14 amended: the scan of ClearCache collects every key with the prefix
\* that is in the store at that moment, and when ClearCache returns nil all
\* collected keys are gone; the only entries left are those written between
\* the scan and the delete.
C14_ScannedEntriesRemoved ==
    [][/\ (clearPc = "idle" /\ clearPc' = "scanned") =>
             clearKeys' = PrefixedKeys(store)
       /\ clearResult' = "nil" =>
             /\ PrefixedKeys(store') \cap clearKeys = {}
             /\ PrefixedKeys(store') = PrefixedKeys(store) \ clearKeys]_vars

\* ClearCache has returned nil and has emptied a store that held an entry
\* when it was scanned, while a write is still pending
C14_Witness ==
    /\ clearResult = "nil"
    /\ store = << >>
    /\ pending # EmptyBag
    /\ cacheMisses = 2

\* the step is the return of a call that invoked the solver
SolverReturns == returned' # NoReturn /\ returned'.solverInvoked

ReturnedKey == generateCacheKey(returned'.sizes, returned'.amount)

\* C20 as stated: the solver is invoked at most once per fingerprint while
\* the entry is neither expired nor cleared and the store does not fail: a
\* call whose read did not fail never comes back from the solver while the
\* result of an earlier invocation for the same key is waiting to be
\* written or is in the store.
C20_AtMostOneCompute ==
    [][(SolverReturns /\ ~returned'.readErr /\ returned'.err.kind = "nil") =>
          /\ ReturnedKey \notin DOMAIN store
          /\ \A t \in BagToSet(pending) : t.key # ReturnedKey]_vars

\* C20 amended: the solver is invoked once for every call whose lookup does
\* not deliver the entry, and for no other call.  A call that finds the
\* entry returns it and starts no solve; a call whose lookup finds nothing
\* or fails starts one, also when another call with the same fingerprint is
\* running or has a write pending; a successful read misses only when the
\* entry is not in the store.
C20_ComputePerMiss ==
    [][/\ (returned' # NoReturn /\ returned'.hit) =>
             (~returned'.solverInvoked /\ inflight' = inflight)
       /\ (calls' = calls + 1 /\ returned' = NoReturn) =>
             /\ BagCardinality(inflight') = BagCardinality(inflight) + 1
             /\ \A cl \in NewInflight : ~cl.readErr => cl.key \notin DOMAIN store
       /\ SolverReturns =>
             /\ calls' = calls
             /\ BagCardinality(inflight') = BagCardinality(inflight) - 1
             /\ \E cl \in BagToSet(inflight) :
                   /\ cl.sizes = returned'.sizes
                   /\ cl.amount = returned'.amount
                   /\ CopiesIn(cl, inflight') = CopiesIn(cl, inflight) - 1]_vars

\* the solver has been invoked for two calls with one fingerprint, neither
\* of which had a failing read: both results wait to be written
C20_Witness ==
    /\ returned # NoReturn
    /\ returned.solverInvoked
    /\ ~returned.readErr
    /\ BagCardinality(pending) = 2
    /\ \A t \in BagToSet(pending) :
          t.key = generateCacheKey(returned.sizes, returned.amount)
    /\ store = << >>

\* ------------------------------------------------------------------------
\* Properties of the steps of DPSolver.Solve
\* ------------------------------------------------------------------------
\* the stepwise execution returns what Solve returns when no check finds
\* the context done
RunAgreesWithSolve ==
    (run.pc = "done" /\ result.err.kind # "ctx") => result = Solve(FALSE, sizes, amount)

\* the multisets of the normalized sizes whose total is exactly s
ExactMultisets(s) ==
    {m \in MultisetsUpTo(SeqRange(run.normalizedSizes), s) : Tally(m, TRUE) = s}

\* the least number of packs whose sizes total exactly s, -1 when there is
\* no such multiset
MinPacks(s) ==
    IF ExactMultisets(s) = {} THEN -1
    ELSE SetMin({Tally(m, FALSE) : m \in ExactMultisets(s)})

\* the sums whose iteration of the outer loop has read dp[sum]
Visited ==
    IF run.pc \in {"try", "update"} THEN 0..run.sum
    ELSE IF run.pc \in {"loop", "visit"} THEN 0..(run.sum - 1)
    ELSE IF run.pc \in {"finish", "reconstruct"} THEN 0..run.maxSum
    ELSE {}

\* C23: when the scan visits the sum s, dp[s].packs is the least number of
\* packs of the normalized sizes that total exactly s, or the unreachable
\* marker -1 when no multiset totals s; and no later step changes dp[s].
C23_FinalOnVisit ==
    [][/\ run.pc = "visit" => run.st.dp[run.sum].packs = MinPacks(run.sum)
       /\ \A s \in Visited : run'.st.dp[s] = run.st.dp[s]]_vars

\* the scan visits a sum that three sizes reach in at least three ways, two
\* packs being the least and some way taking four or more
C23_Witness ==
    /\ run.pc = "visit"
    /\ Len(run.normalizedSizes) = 3
    /\ Cardinality(ExactMultisets(run.sum)) >= 3
    /\ run.st.dp[run.sum].packs = 2
    /\ \E m \in ExactMultisets(run.sum) : Tally(m, FALSE) >= 4

\* C24: the reconstruction from the best terminal ends at sum 0: each of its
\* steps follows the recorded predecessor to a strictly smaller sum that is
\* not negative; the breakdown it has built when it ends totals exactly
\* bestSum in size and exactly bestPacks in count, bestPacks being the count
\* recorded when the best terminal was selected, and it is the breakdown of
\* the returned Solution.
C24_ReconstructionExact ==
    [][/\ (run.pc = "reconstruct" /\ run'.pc = "reconstruct" /\ run' # run) =>
             /\ run'.currentSum < run.currentSum
             /\ run'.currentSum >= 0
             /\ run.st.dp[run.currentSum].parent # -1
       /\ (run.pc = "reconstruct" /\ run'.pc = "done") =>
             /\ run.currentSum = 0
             /\ Tally(run.breakdown, TRUE) = run.st.bestSum
             /\ Tally(run.breakdown, FALSE) = run.st.bestPacks
             /\ result'.err = NoErr
             /\ result'.solution.Breakdown = run.breakdown
             /\ result'.solution.Packs = run.st.bestPacks]_vars

\* a reconstruction has ended at 0 with a breakdown of two sizes and at
\* least three packs
C24_Witness ==
    /\ run.pc = "done"
    /\ result.err = NoErr
    /\ result.dpBuilt
    /\ run.currentSum = 0
    /\ Cardinality(DOMAIN run.breakdown) = 2
    /\ run.st.bestPacks >= 3

\* the sums of the table whose recorded state the step changes
ChangedCells == {s \in DOMAIN run.st.dp : run'.st.dp[s] # run.st.dp[s]}

BestChanged ==
    run'.st.bestSum # run.st.bestSum \/ run'.st.bestPacks # run.st.bestPacks

\* C25: a step of the scan gives the running best terminal a new value only
\* for the transition it has just tried, and only when there was no
\* terminal yet, or the new overage is strictly smaller, or the overage is
\* equal and the packs strictly fewer; it changes the recorded (packs,
\* predecessor) of a sum only for the sum just reached, and only when that
\* sum was unreached or the new pack count is strictly smaller.  A later
\* candidate that is equally good replaces nothing.
C25_StrictTieBreak ==
    [][run.pc \in {"loop", "visit", "try", "update", "finish", "reconstruct"} =>
          /\ BestChanged =>
                /\ run.pc = "update"
                /\ run'.st.bestSum = run.newSum
                /\ run'.st.bestPacks = run.st.dp[run.sum].packs + 1
                /\ run.newSum >= amount
                /\ \/ run.st.bestSum = -1
                   \/ run'.st.bestSum - amount < run.st.bestSum - amount
                   \/ /\ run'.st.bestSum - amount = run.st.bestSum - amount
                      /\ run'.st.bestPacks < run.st.bestPacks
          /\ \A s \in ChangedCells :
                /\ run.pc = "update"
                /\ s = run.newSum
                /\ run'.st.dp[s].packs = run.st.dp[run.sum].packs + 1
                /\ \/ run.st.dp[s].packs = -1
                   \/ run'.st.dp[s].packs < run.st.dp[s].packs]_vars

\* the transition just tried reached the best terminal with the same pack
\* count as recorded, and the record of the earlier transition was kept
C25_Witness ==
    /\ run.pc = "try"
    /\ run.idx > 0
    /\ LET cand == run.sum + run.normalizedSizes[run.idx]
       IN /\ cand <= run.maxSum
          /\ cand = run.st.bestSum
          /\ run.st.dp[run.sum].packs + 1 = run.st.bestPacks
          /\ run.st.dp[cand].packs = run.st.bestPacks
          /\ run.st.dp[cand].parent # run.idx - 1

\* the call has allocated its table
TableAllocated == run.pc \in {"loop", "visit", "try", "update", "finish", "reconstruct"}

\* the number of cells of the table: len(dp)
TableCells == Cardinality(DOMAIN run.st.dp)

\* the indexes at which the step about to be taken reads or writes the table
IndexesUsed ==
    IF run.pc = "visit" THEN {run.sum}
    ELSE IF run.pc = "update" THEN {run.sum, run.newSum}
    ELSE IF run.pc = "reconstruct" /\ run.currentSum > 0 THEN {run.currentSum}
    ELSE {}

\* the scan and the reconstruction stay inside the table
IndexesInTable == TableAllocated => IndexesUsed \subseteq DOMAIN run.st.dp

\* C26: the table allocated by one Solve call has at most maxDPSize
\* (10,000,000) cells, and no step reads or writes an index outside it.
C26_TableWithinLimit ==
    TableAllocated => (TableCells <= maxDPSize /\ IndexesInTable)

\* C27 as stated: once the context is done the scan processes fewer than
\* ctxCheckInterval (10,000) further sums before Solve returns.
C27_FewerThanInterval == run.after < ctxCheckInterval

\* the loop is at a sum at which it looks at the context
AtCheck ==
    run.pc = "loop" /\ run.sum <= run.maxSum /\ run.sum % ctxCheckInterval = 0

\* C27 amended: Solve looks at the context on entry and at every scanned sum
\* that is a multiple of ctxCheckInterval, returns the context's error from
\* a check that finds it done, and from nowhere else; so once the context
\* is done the scan processes at most ctxCheckInterval further sums before
\* Solve returns (that many when the context becomes done between a check
\* and the processing of its sum).
C27_AtMostInterval ==
    [][/\ run'.after <= ctxCheckInterval
       /\ (run.pc = "idle" /\ ctxDone) => (CtxFailure(result') /\ ~result'.dpBuilt)
       /\ (AtCheck /\ ctxDone) => (CtxFailure(result') /\ run'.pc = "done")
       /\ (result'.err.kind = "ctx" /\ result.err.kind # "ctx") =>
             (ctxDone /\ (run.pc = "idle" \/ AtCheck))]_vars

\* a check has stopped the scan after a full period of sums was processed
\* with the context done
C27_Witness ==
    /\ run.pc = "done"
    /\ CtxFailure(result)
    /\ result.dpBuilt
    /\ run.after = ctxCheckInterval
    /\ run.sum = 2 * ctxCheckInterval

\* ------------------------------------------------------------------------
\* Properties of CachedSolver: order of validation and lookup
\* ------------------------------------------------------------------------
\* the input (list, target) breaks a rule of the validation
BreaksRule(list, target) ==
    \/ Len(list) = 0
    \/ \E i \in 1..Len(list) : list[i] <= 0 \/ list[i] > maxSize
    \/ \E i, j \in 1..Len(list) : i # j /\ list[i] = list[j]
    \/ target <= 0
    \/ target > maxAmount

\* C28 as stated: the input is validated before the store is read: the step
\* that starts a call for an invalid input returns the invalid-input error
\* at once, without a lookup (no counter moves, no read can have failed).
C28_ValidatedBeforeLookup ==
    [][\A in \in CacheInputs :
          (StartsCall(in) /\ BreaksRule(in.sizes, in.amount)) =>
              /\ returned' # NoReturn
              /\ returned'.err.kind = "ErrInvalidInput"
              /\ ~returned'.readErr
              /\ CountersUnchanged]_vars

\* C28 amended: the cached solve computes the fingerprint and reads the
\* store first and validates nothing itself: for an invalid input the
\* lookup is made and counted as a miss (no entry is ever stored under the
\* fingerprint of an invalid input), the input is then rejected by the
\* underlying solver, whose invalid-input error is returned unless the
\* context is done; no write is scheduled and the store is left as it is.
C28_LookupBeforeValidation ==
    [][/\ \A in \in CacheInputs :
             (StartsCall(in) /\ BreaksRule(in.sizes, in.amount)) =>
                 /\ returned' = NoReturn
                 /\ cacheMisses' = cacheMisses + 1
                 /\ cacheHits' = cacheHits
                 /\ \E cl \in NewInflight :
                       cl.sizes = in.sizes /\ cl.amount = in.amount
       /\ (returned' # NoReturn /\ BreaksRule(returned'.sizes, returned'.amount)) =>
             /\ returned'.solverInvoked
             /\ ~returned'.hit
             /\ returned'.err.kind =
                   (IF returned'.ctxDone THEN "ctx" ELSE "ErrInvalidInput")
             /\ returned'.solution = NoSolutionValue
             /\ pending' = pending
             /\ store' = store
       /\ \A k \in DOMAIN store' : ~BreaksRule(k.hash, k.amount)]_vars

\* the invalid-input error has come back from the solver for a call whose
\* read of the store failed, while the store holds an entry
C28_Witness ==
    /\ returned # NoReturn
    /\ returned.err.kind = "ErrInvalidInput"
    /\ returned.solverInvoked
    /\ returned.readErr
    /\ cacheMisses >= 1
    /\ DOMAIN store # {}

\* ------------------------------------------------------------------------
\* Properties of PackHandler.SolvePacks
\* ------------------------------------------------------------------------
MethodIsPost == http.req.method = "POST"

ContentTypeAccepted == http.req.contentType \in {"application/json", ""}

\* the body is JSON that fits a SolveRequest
BodyDecodes ==
    \/ http.req.body.kind = "null"
    \/ /\ http.req.body.kind = "object"
       /\ http.req.body.sizes.t \in {"ints", "null", "absent"}
       /\ http.req.body.amount.t \in {"int", "null", "absent"}

\* the sizes and the amount the body states (absent or null: none, 0)
StatedSizes ==
    IF http.req.body.kind = "object" /\ http.req.body.sizes.t = "ints"
    THEN http.req.body.sizes.v ELSE << >>

StatedAmount ==
    IF http.req.body.kind = "object" /\ http.req.body.amount.t = "int"
    THEN http.req.body.amount.v ELSE 0

\* the status of the first check the request fails, 0 if it passes all
FirstFailure ==
    IF ~MethodIsPost THEN 405
    ELSE IF ~ContentTypeAccepted THEN 415
    ELSE IF ~BodyDecodes THEN 400
    ELSE IF BreaksRule(StatedSizes, StatedAmount) THEN 422
    ELSE 0

\* C29: SolvePacks calls the solver only for a request that has passed the
\* method check, the content-type check, the JSON decoding and the
\* validation of sizes and amount, in this order; a request that fails one
\* of them is answered with the status of the first check it fails (405,
\* 415, 400, 422), and for it neither the solver nor the repository is
\* called, now or later.
C29_ChecksBeforeSolver ==
    http.pc = "responded" =>
        /\ FirstFailure # 0 =>
              /\ http.status = FirstFailure
              /\ http.solverCalls = 0
              /\ http.savesPending = 0
              /\ http.repositoryCalls = 0
              /\ result = NotCalled
        /\ FirstFailure = 0 => http.solverCalls = 1
        /\ (http.savesPending > 0 \/ http.repositoryCalls > 0) =>
              (FirstFailure = 0 /\ http.status = 200 /\ http.req.hasRepository)

\* a POST with an accepted content type and well-formed JSON whose sizes
\* repeat a value was answered with 422 by a handler that has a repository
C29_Witness ==
    /\ http.pc = "responded"
    /\ http.status = 422
    /\ http.req.hasRepository
    /\ http.req.contentType = ""
    /\ StatedSizes = <<2, 2>>
    /\ StatedAmount = 7
    /\ http.solverCalls = 0

\* ------------------------------------------------------------------------
\* Properties of CachedSolver: the Solution shared with the caller
\* ------------------------------------------------------------------------
\* every entry of the store decodes to the Solution the solver computes for
\* the sizes and the target of its key
EntriesAreComputed ==
    \A k \in DOMAIN store :
        Unmarshal(store[k]) = Solve(FALSE, k.hash, k.amount).solution

\* C30: the entry a background write puts into the store is the Solution
\* the solver computed for that key, also when the caller modifies the
\* Breakdown of the Solution it received while the write is pending.
C30_EntryIndependentOfCaller == EntriesAreComputed

====
